---- MODULE Spec2Model ----
(***************************************************************************)
(* Model of modal_app/app.py: the submit and status web endpoints, the     *)
(* render_cpu / render_gpu workers they spawn, and the helpers the workers *)
(* call (_prepare_audio, _start_next_server, _run_render, _copy_to_r2,     *)
(* _send_callback); and of the /transcribe endpoints of the two            *)
(* transcription services, docker/whisper/server.py and                    *)
(* whisper-service/main.py.                                                *)
(***************************************************************************)
EXTENDS Naturals, Sequences, FiniteSets, TLC

VARIABLES
    secret,   \* os.environ["MODAL_AUTH_TOKEN"] of the deployment ("" when unset)
    now,      \* int(time.time()) as submit last read it for a default job_id
    calls,    \* the function calls spawned so far, indexed 1..Len(calls)
    http,     \* the last endpoint exchange (request and response), until the next step
    model,    \* the global `model` of docker/whisper/server.py: "none" or "loaded"
    uploads,  \* the /transcribe requests of the two services, indexed 1..Len(uploads)
    tmpfiles  \* the temporary files that exist on disk

vars == <<secret, now, calls, http, model, uploads, tmpfiles>>
render == <<secret, now, calls, http>>
whisper == <<model, uploads, tmpfiles>>

(***************************************************************************)
(* Bounds of the model.                                                    *)
(***************************************************************************)
MaxCalls == 2      \* function calls spawned per behaviour
MaxTime == 1       \* clock values 0..MaxTime
MaxProbes == 2     \* readiness probes of _start_next_server (range(60) in the source)
MaxUploads == 2    \* /transcribe requests per behaviour

(***************************************************************************)
(* Python values.  A key that a dict does not carry is NoKey (string       *)
(* fields) or Missing (structured fields).                                 *)
(***************************************************************************)
NoKey == "<missing>"
Missing == [t |-> "missing"]
PyNone == [t |-> "none"]
PyInt == [t |-> "int"]
PyList == [t |-> "list"]
PyBool(b) == [t |-> "bool", b |-> b]
PyStr(s) == [t |-> "str", s |-> s]
OutputDict(fmt) == [t |-> "dict", format |-> fmt]
\* a config dict: its "output" entry, and whether it has any other entry
ConfigDict(out, other) == [t |-> "dict", output |-> out, other |-> other]

\* dict.get(key, default)
Get(v, default) == IF v = NoKey THEN default ELSE v
GetV(v, default) == IF v.t = "missing" THEN default ELSE v

\* truth value of a string / of a config
TruthyStr(v) == v \notin {NoKey, ""}

\* variant: `config is not None` in place of the truth value
TruthyConfig_NotNone(c) == c.t \in {"dict", "list"}

TruthyConfig(c) ==
    CASE c.t = "dict" -> (c.output.t # "missing" \/ c.other)
      [] c.t = "list" -> TRUE        \* a non-empty list
      [] OTHER -> FALSE

\* sub in s, for strings as sequences of characters
Contains(sub, s) ==
    \E i \in 1..(Len(s) + 1) :
        /\ i + Len(sub) - 1 <= Len(s)
        /\ SubSeq(s, i, i + Len(sub) - 1) = sub

DefaultFormat ==
    <<"f","l","a","t","-","1","0","8","0","p","-","l","a","n","d","s","c","a","p","e">>

(***************************************************************************)
(* _needs_gpu(config): the value it returns, or the exception it raises.   *)
(***************************************************************************)
Returned(b) == [raised |-> FALSE, value |-> b]
Raised == [raised |-> TRUE, value |-> FALSE]

\* variant: only the "4k" marker is looked for
_needs_gpu_Only4k(config) ==
    IF config.t # "dict" THEN Raised
    ELSE LET out == GetV(config.output, OutputDict(Missing)) IN
         IF out.t # "dict" THEN Raised
         ELSE LET fmt == GetV(out.format, PyStr(DefaultFormat)) IN
              IF fmt.t = "str" THEN Returned(Contains(<<"4","k">>, fmt.s)) ELSE Raised

_needs_gpu(config) ==
    IF config.t # "dict" THEN Raised                 \* no .get on a list
    ELSE LET out == GetV(config.output, OutputDict(Missing)) IN
         IF out.t # "dict" THEN Raised               \* None.get / "x".get
         ELSE LET fmt == GetV(out.format, PyStr(DefaultFormat)) IN
              IF fmt.t = "str"
              THEN Returned(Contains(<<"4","k">>, fmt.s) \/ Contains(<<"3","6","0">>, fmt.s))
              ELSE Raised                            \* "4k" in 1080 / in None

(***************************************************************************)
(* Requests.                                                               *)
(***************************************************************************)
Tokens == {NoKey, "", "T", "W"}
Secrets == {"", "T"}
Url == "https://x/a.mp3"
\* a text of 1280 characters, and a URL that carries it (a signed URL)
Twice(s) == s \o s
LongText == Twice(Twice(Twice(Twice(Twice(Twice(Twice("0123456789")))))))
LongUrl == "https://x/" \o LongText \o ".mp3"
B64 == "QUJD"
Cb == "https://control"
CbFlaky == "https://flaky"    \* an endpoint whose answers are not all 2xx

Formats ==
    { <<"4","k">>, <<"3","6","0">>, <<"x","4","k","-","3","6","0">>, <<"4","K">>,
      <<"3","6">>, <<"k","4","0","6","3">>, <<"1","0","8","0","p">> }

Configs ==
    {Missing, ConfigDict(Missing, FALSE), ConfigDict(Missing, TRUE), PyList,
     ConfigDict(PyNone, FALSE), ConfigDict(PyStr(<<"4","k">>), TRUE),
     ConfigDict(OutputDict(Missing), TRUE),
     ConfigDict(OutputDict(PyInt), TRUE), ConfigDict(OutputDict(PyNone), TRUE)}
    \cup {ConfigDict(OutputDict(PyStr(f)), TRUE) : f \in Formats}

Flat == ConfigDict(OutputDict(PyStr(<<"1","0","8","0","p">>)), TRUE)
Gpus == {Missing, PyBool(TRUE), PyBool(FALSE)}

Request(tok, cfg, job, url, b64, cb, gpu) ==
    [auth_token |-> tok, config |-> cfg, job_id |-> job, audio_url |-> url,
     audio_base64 |-> b64, callback_url |-> cb, gpu |-> gpu]

\* submit reads every field on its own; the requests vary the fields each
\* decision of submit reads, around a well-formed request.
Requests ==
    {Request(tok, cfg, "a", url, NoKey, Cb, Missing) :
        tok \in Tokens, cfg \in {Missing, Flat}, url \in {NoKey, Url}}
    \cup {Request("T", cfg, "a", Url, NoKey, Cb, gpu) : cfg \in Configs, gpu \in Gpus}
    \cup {Request("T", Flat, job, Url, NoKey, Cb, Missing) : job \in {NoKey, "a"}}
    \cup {Request("T", Flat, "a", a[1], a[2], Cb, Missing) :
            a \in {<<NoKey, NoKey>>, <<NoKey, B64>>, <<LongUrl, B64>>}}
    \cup {Request("T", Flat, "a", Url, NoKey, cb, Missing) : cb \in {NoKey, CbFlaky}}

\* variant: submit answers with the object_id of the function, not of the call
CallId_OfFunction(n) == "fu-render"

\* call.object_id of the n-th call the platform has accepted
CallId(n) == "fc-" \o ToString(n)
GenJobId(t) == "modal_" \o ToString(t)
R2Key(job_id) == "renders/" \o job_id \o ".mp4"

NoExchange == [ep |-> "none"]

(***************************************************************************)
(* A spawned function call (one execution of render_cpu or render_gpu).    *)
(*   pc          where the worker is in the body of the function           *)
(*   attempt     the loop variable of _start_next_server while it polls    *)
(*   proc        the `next start` subprocess: "none", "running", "killed"  *)
(*   server_proc whether the local server_proc holds the subprocess        *)
(*   log         the stages started, the stages that returned and the      *)
(*               _send_callback calls, in order                            *)
(*   sent        the bodies PATCHed to the control plane, in order         *)
(*   acks        what became of each PATCH: "2xx", "500" or "error"        *)
(*   env         what the environment did to the call, step by step: the   *)
(*               outcome of each stage, and the steps without one          *)
(*   stored      what is at the job's key in /r2: "none", "partial", "full"*)
(*   result      what the platform records when the function ends         *)
(***************************************************************************)
NoResult == [kind |-> "none", r2_key |-> NoKey, exc |-> NoKey, msg |-> NoKey]
ReturnValue(key) == [kind |-> "returned", r2_key |-> key, exc |-> NoKey, msg |-> NoKey]
RaisedValue(exc, msg) == [kind |-> "raised", r2_key |-> NoKey, exc |-> exc, msg |-> msg]

\* variant: fn.remote(...) in place of fn.spawn(...): the call has run when
\* submit gets it back
NewCall_Remote(fn, job_id, audio_url, audio_base64, callback_url) ==
    [fn |-> fn, job_id |-> job_id, audio_url |-> audio_url,
     audio_base64 |-> audio_base64, callback_url |-> callback_url,
     pc |-> "exited", attempt |-> 0, proc |-> "killed", server_proc |-> TRUE,
     audio |-> "url", r2_key |-> R2Key(job_id), log |-> <<>>, sent |-> <<>>,
     stored |-> "full", result |-> ReturnValue(R2Key(job_id)), acks |-> <<>>, env |-> <<>>]

\* `call = fn.spawn(...)`: the call as the platform holds it when spawn returns
NewCall(fn, job_id, audio_url, audio_base64, callback_url) ==
    [fn |-> fn, job_id |-> job_id, audio_url |-> audio_url,
     audio_base64 |-> audio_base64, callback_url |-> callback_url,
     pc |-> "start", attempt |-> 0, proc |-> "none", server_proc |-> FALSE,
     audio |-> "none", r2_key |-> NoKey, log |-> <<>>, sent |-> <<>>,
     stored |-> "none", result |-> NoResult, acks |-> <<>>, env |-> <<>>]

(***************************************************************************)
(* submit(request)                                                         *)
(***************************************************************************)
Unauthorized == [kind |-> "error", error |-> "Unauthorized", status |-> 401]
ConfigRequired == [kind |-> "error", error |-> "config is required", status |-> 400]
AudioRequired ==
    [kind |-> "error", error |-> "audio_url or audio_base64 is required", status |-> 400]
ServerError == [kind |-> "raised"]     \* submit raised: the endpoint answers 500
Accepted(call_id, use_gpu, job_id) ==
    [kind |-> "accepted", call_id |-> call_id, gpu |-> use_gpu, job_id |-> job_id]

\* variant: the configured secret is not checked for being set
AuthFails_NoSecretCheck(auth_token, req_token) == req_token # auth_token

\* `not auth_token or req_token != auth_token`
AuthFails(auth_token, req_token) == auth_token = "" \/ req_token # auth_token

\* `not audio_url and not audio_base64`
NoAudio(audio_url, audio_base64) == ~TruthyStr(audio_url) /\ ~TruthyStr(audio_base64)

\* `request.get("gpu", _needs_gpu(config))`: the default is evaluated first
UseGpu(gpu, needs) == GetV(gpu, PyBool(needs.value))

\* `fn = render_gpu if use_gpu else render_cpu`
Lane(use_gpu) == IF use_gpu.b THEN "render_gpu" ELSE "render_cpu"

\* variant: the two validation checks come before the token check
submit_outcome_ValidateFirst(request, auth_token, t, next_id) ==
    LET req_token == Get(request.auth_token, "")
        config == GetV(request.config, ConfigDict(Missing, FALSE))
        job_id == Get(request.job_id, GenJobId(t))
    IN  IF ~TruthyConfig(config)
        THEN [resp |-> ConfigRequired, spawn |-> <<>>]
        ELSE IF NoAudio(request.audio_url, request.audio_base64)
        THEN [resp |-> AudioRequired, spawn |-> <<>>]
        ELSE IF AuthFails(auth_token, req_token)
        THEN [resp |-> Unauthorized, spawn |-> <<>>]
        ELSE LET needs == _needs_gpu(config) IN
             IF needs.raised
             THEN [resp |-> ServerError, spawn |-> <<>>]
             ELSE LET use_gpu == UseGpu(request.gpu, needs) IN
                  [resp |-> Accepted(CallId(next_id), use_gpu, job_id),
                   spawn |-> <<NewCall(Lane(use_gpu), job_id, request.audio_url,
                                       request.audio_base64, request.callback_url)>>]

\* variant: a request whose job_id an earlier call carries is answered with
\* the handle of that call and spawns nothing
submit_outcome_Dedup(request, auth_token, t, next_id) ==
    LET req_token == Get(request.auth_token, "")
        config == GetV(request.config, ConfigDict(Missing, FALSE))
        job_id == Get(request.job_id, GenJobId(t))
        same == {n \in DOMAIN calls : calls[n].job_id = job_id}
    IN  IF AuthFails(auth_token, req_token)
        THEN [resp |-> Unauthorized, spawn |-> <<>>]
        ELSE IF ~TruthyConfig(config)
        THEN [resp |-> ConfigRequired, spawn |-> <<>>]
        ELSE IF NoAudio(request.audio_url, request.audio_base64)
        THEN [resp |-> AudioRequired, spawn |-> <<>>]
        ELSE LET needs == _needs_gpu(config) IN
             IF needs.raised
             THEN [resp |-> ServerError, spawn |-> <<>>]
             ELSE LET use_gpu == UseGpu(request.gpu, needs) IN
                  IF same # {}
                  THEN [resp |-> Accepted(CallId(CHOOSE n \in same : TRUE), use_gpu, job_id),
                        spawn |-> <<>>]
                  ELSE [resp |-> Accepted(CallId(next_id), use_gpu, job_id),
                        spawn |-> <<NewCall(Lane(use_gpu), job_id, request.audio_url,
                                            request.audio_base64, request.callback_url)>>]

\* the response of submit and the call it spawns (<<>> when it spawns none)
submit_outcome(request, auth_token, t, next_id) ==
    LET req_token == Get(request.auth_token, "")
        config == GetV(request.config, ConfigDict(Missing, FALSE))
        job_id == Get(request.job_id, GenJobId(t))
        audio_url == request.audio_url
        audio_base64 == request.audio_base64
        callback_url == request.callback_url
    IN  IF AuthFails(auth_token, req_token)
        THEN [resp |-> Unauthorized, spawn |-> <<>>]
        ELSE IF ~TruthyConfig(config)
        THEN [resp |-> ConfigRequired, spawn |-> <<>>]
        ELSE IF NoAudio(audio_url, audio_base64)
        THEN [resp |-> AudioRequired, spawn |-> <<>>]
        ELSE LET needs == _needs_gpu(config) IN
             IF needs.raised
             THEN [resp |-> ServerError, spawn |-> <<>>]
             ELSE LET use_gpu == UseGpu(request.gpu, needs) IN
                  [resp |-> Accepted(CallId(next_id), use_gpu, job_id),
                   spawn |-> <<NewCall(Lane(use_gpu), job_id, audio_url,
                                       audio_base64, callback_url)>>]

\* t is the clock when submit runs; the model keeps it only when the request
\* has no job_id, the one case in which submit uses it
submit(request, t) ==
    /\ Len(calls) < MaxCalls
    /\ t >= now
    /\ request.job_id # NoKey => t = now
    /\ LET out == submit_outcome(request, secret, t, Len(calls) + 1) IN
        /\ calls' = calls \o out.spawn
        /\ http' = [ep |-> "submit", request |-> request, resp |-> out.resp,
                    before |-> Len(calls)]
    /\ now' = t
    /\ UNCHANGED <<secret, whisper>>

(***************************************************************************)
(* _send_callback(callback_url, job_id, status, r2_key, error, progress)   *)
(* progress is <<>> for None.  The request is made inside try/except       *)
(* Exception: its outcome (2xx, non-2xx, network error) is only printed.   *)
(***************************************************************************)
\* what requests.patch meets at the endpoint: the flaky endpoint answers the
\* first callback, rejects the second and is unreachable for the terminal one
Patch(callback_url, status, progress) ==
    IF callback_url # CbFlaky \/ progress = <<5>> THEN "2xx"
    ELSE IF status = "rendering" THEN "500" ELSE "error"

CallbackEvent(status, r2_key, error, progress) ==
    [ev |-> "callback", name |-> status, r2_key |-> r2_key, error |-> error,
     progress |-> progress]
StageEvent(stage) ==
    [ev |-> "stage", name |-> stage, r2_key |-> NoKey, error |-> NoKey, progress |-> <<>>]
DoneEvent(stage) ==
    [ev |-> "done", name |-> stage, r2_key |-> NoKey, error |-> NoKey, progress |-> <<>>]

CurrentStage(status) ==
    CASE status = "completed" -> "Complete"
      [] status = "failed" -> "Failed"
      [] OTHER -> NoKey

Body(status, r2_key, error, progress) ==
    [status |-> status, progress |-> progress,
     errorMessage |-> IF TruthyStr(error) THEN error ELSE NoKey,
     localPath |-> IF TruthyStr(r2_key)
                   THEN "https://renders.etherealflame.studio/" \o r2_key ELSE NoKey,
     currentStage |-> CurrentStage(status)]

\* variant: requests.patch is not inside a try block and is followed by
\* raise_for_status(): a PATCH that is not answered 2xx ends the call
_send_callback_Unguarded(c, status, r2_key, error, progress) ==
    LET called == [c EXCEPT !.log = Append(@, CallbackEvent(status, r2_key, error, progress))]
        ack == Patch(c.callback_url, status, progress)
    IN  IF ~TruthyStr(c.callback_url) THEN called
        ELSE [called EXCEPT !.sent = Append(@, Body(status, r2_key, error, progress)),
                            !.acks = Append(@, ack),
                            !.result = IF ack = "2xx" THEN @
                                       ELSE RaisedValue("Exception", "callback failed")]

_send_callback(c, status, r2_key, error, progress) ==
    LET called == [c EXCEPT !.log = Append(@, CallbackEvent(status, r2_key, error, progress))] IN
    IF ~TruthyStr(c.callback_url) THEN called
    ELSE [called EXCEPT !.sent = Append(@, Body(status, r2_key, error, progress)),
                        !.acks = Append(@, Patch(c.callback_url, status, progress))]

Stage(c, stage) == [c EXCEPT !.log = Append(@, StageEvent(stage))]
Done(c, stage) == [c EXCEPT !.log = Append(@, DoneEvent(stage))]

\* `finally: if server_proc: server_proc.kill()`
Finally(c) == IF c.server_proc THEN [c EXCEPT !.proc = "killed"] ELSE c

\* `except Exception as e: _send_callback(..., "failed", error=str(e)); raise`
ExceptException(c, exc, msg) == _send_callback(c, "failed", NoKey, msg, <<>>)

\* an exception of class exc leaves the try block of render_cpu / render_gpu
Raise(c, exc, msg) ==
    LET handled == IF exc = "BaseException" THEN c ELSE ExceptException(c, exc, msg) IN
    [Finally(handled) EXCEPT !.pc = "exited", !.result = RaisedValue(exc, msg)]

\* the call h takes a step into c; e is what the environment did in it
Env(c, e) == [c EXCEPT !.env = Append(@, e)]
Set(h, c) ==
    /\ calls' = [calls EXCEPT ![h] = c]
    /\ http' = NoExchange
    /\ UNCHANGED <<secret, now, whisper>>

(***************************************************************************)
(* render_cpu / render_gpu                                                 *)
(***************************************************************************)
\* variant: the first callback reports progress 15
Begin_Progress15(h) ==
    /\ calls[h].pc = "start"
    /\ Set(h, [_send_callback(Env(calls[h], "begin"), "rendering", NoKey, NoKey, <<15>>)
                 EXCEPT !.pc = "audio"])

\* `_send_callback(callback_url, job_id, "rendering", progress=5)`
Begin(h) ==
    /\ calls[h].pc = "start"
    /\ Set(h, [_send_callback(Env(calls[h], "begin"), "rendering", NoKey, NoKey, <<5>>)
                 EXCEPT !.pc = "audio"])

\* _prepare_audio: the source it reads
AudioSource(audio_url, audio_base64) ==
    IF TruthyStr(audio_url) THEN "url"
    ELSE IF TruthyStr(audio_base64) THEN "base64" ELSE "none"

\* variant: when the fetch fails and the request has an inline payload, the
\* payload is decoded instead
_prepare_audio_Fallback(h, ok) ==
    /\ calls[h].pc = "audio"
    /\ LET c == Stage(calls[h], "AcquireAudio")
           src == AudioSource(c.audio_url, c.audio_base64)
           used == [c EXCEPT !.audio = src]
       IN  IF src = "none"
           THEN Set(h, Raise(Env(used, "audio:none"), "Exception",
                             "Either audio_url or audio_base64 must be provided"))
           ELSE IF ok
           THEN Set(h, [Done(Env(used, "audio:ok"), "AcquireAudio") EXCEPT !.pc = "boot"])
           ELSE IF src = "url" /\ TruthyStr(c.audio_base64)
           THEN Set(h, [Done(Env(used, "audio:fail"), "AcquireAudio") EXCEPT
                            !.audio = "base64", !.pc = "boot"])
           ELSE Set(h, Raise(Env(used, "audio:fail"), "Exception", "Incorrect padding"))

\* variant: a failed acquisition is tried a second time
_prepare_audio_Retry(h, ok) ==
    /\ calls[h].pc = "audio"
    /\ LET c == Stage(calls[h], "AcquireAudio")
           first == \A i \in DOMAIN calls[h].log : calls[h].log[i].ev # "stage"
       IN  IF ok THEN Set(h, [Done(c, "AcquireAudio") EXCEPT !.pc = "boot"])
           ELSE IF first THEN Set(h, c)
           ELSE Set(h, Raise(c, "Exception", "404 Client Error"))

_prepare_audio(h, ok) ==
    /\ calls[h].pc = "audio"
    /\ LET c == Stage(calls[h], "AcquireAudio")
           src == AudioSource(c.audio_url, c.audio_base64)
           used == [c EXCEPT !.audio = src]
       IN  IF src = "none"
           THEN Set(h, Raise(Env(used, "audio:none"), "Exception",
                             "Either audio_url or audio_base64 must be provided"))
           ELSE IF ok
           THEN Set(h, [Done(Env(used, "audio:ok"), "AcquireAudio") EXCEPT !.pc = "boot"])
           ELSE Set(h, Raise(Env(used, "audio:fail"), "Exception",
                             IF src = "url"
                             THEN "404 Client Error: Not Found for url: " \o c.audio_url
                             ELSE "Incorrect padding"))

\* _start_next_server: subprocess.Popen
Popen(h, ok) ==
    /\ calls[h].pc = "boot"
    /\ LET c == Stage(calls[h], "BootstrapService") IN
       IF ok THEN Set(h, [Env(c, "popen:ok") EXCEPT
                              !.proc = "running", !.attempt = 0, !.pc = "probe"])
       ELSE Set(h, Raise(Env(c, "popen:fail"), "Exception", "No such file or directory: 'npx'"))

\* variant: the loop runs out without proc.kill()
Probe_NoKill(h, ok) ==
    /\ calls[h].pc = "probe"
    /\ calls[h].attempt < MaxProbes
    /\ LET c == calls[h] IN
       IF ok
       THEN Set(h, [_send_callback([Done(Env(c, "ready"), "BootstrapService") EXCEPT
                                        !.server_proc = TRUE, !.attempt = 0],
                                   "rendering", NoKey, NoKey, <<10>>)
                      EXCEPT !.pc = "render"])
       ELSE IF c.attempt + 1 < MaxProbes
       THEN Set(h, [c EXCEPT !.attempt = @ + 1])
       ELSE Set(h, Raise([Env(c, "never ready") EXCEPT !.attempt = 0],
                         "Exception", "Next.js failed to start within 60s"))

\* _start_next_server: one pass of `for attempt in range(60)`, then the return
\* into `server_proc = ...` and `_send_callback(..., "rendering", progress=10)`
Probe(h, ok) ==
    /\ calls[h].pc = "probe"
    /\ calls[h].attempt < MaxProbes
    /\ LET c == calls[h] IN
       IF ok
       THEN Set(h, [_send_callback([Done(Env(c, "ready"), "BootstrapService") EXCEPT
                                        !.server_proc = TRUE, !.attempt = 0],
                                   "rendering", NoKey, NoKey, <<10>>)
                      EXCEPT !.pc = "render"])
       ELSE IF c.attempt + 1 < MaxProbes
       THEN Set(h, [c EXCEPT !.attempt = @ + 1])
       ELSE Set(h, Raise([Env(c, "never ready") EXCEPT !.attempt = 0, !.proc = "killed"],
                         "Exception", "Next.js failed to start within 60s"))

\* `result.stderr[-500:]`
StderrTail == 500
LastChars(s, n) == IF Len(s) <= n THEN s ELSE SubSeq(s, Len(s) - n + 1, Len(s))

\* variant: result.returncode is not looked at
_run_render_IgnoreExit(h, outcome) ==
    /\ calls[h].pc = "render"
    /\ LET c == Stage(Env(calls[h], "render:" \o outcome), "Invoke") IN
       IF outcome = "timeout"
       THEN Set(h, Raise(c, "Exception", "Command timed out after 3600 seconds"))
       ELSE Set(h, [Done(c, "Invoke") EXCEPT !.pc = "copy"])

\* _run_render: subprocess.run(..., timeout=3600)
_run_render(h, outcome) ==
    /\ calls[h].pc = "render"
    /\ LET c == Stage(Env(calls[h], "render:" \o outcome), "Invoke") IN
       CASE outcome = "ok" -> Set(h, [Done(c, "Invoke") EXCEPT !.pc = "copy"])
         [] outcome = "nonzero" ->
                Set(h, Raise(c, "Exception",
                             "Render failed (exit 1): " \o LastChars(LongText, StderrTail)))
         [] outcome = "timeout" -> Set(h, Raise(c, "Exception", "Command timed out after 3600 seconds"))

\* the exceptions the file operations of _copy_to_r2 raise on the /r2 mount:
\* an OSError, which is a TimeoutError when errno is ETIMEDOUT
CopyErrors == {"Exception", "TimeoutError"}
CopyMessage(exc) == IF exc = "TimeoutError" THEN "[Errno 110] Connection timed out"
                    ELSE "[Errno 5] Input/output error"

\* variant: the size is read for the log line only, and a failure to read it
\* is ignored
_copy_to_r2_SizeOptional(h, outcome, exc, partial) ==
    /\ calls[h].pc = "copy"
    /\ LET e == "copy:" \o outcome \o ":" \o exc \o (IF partial THEN ":partial" ELSE "")
           c == Stage(Env(calls[h], e), "PersistArtifact")
       IN
       CASE outcome \in {"ok", "getsize"} /\ exc = "Exception" /\ ~partial ->
                Set(h, [Done(c, "PersistArtifact") EXCEPT
                            !.stored = "full", !.r2_key = R2Key(c.job_id), !.pc = "notify"])
         [] outcome = "mkdir" /\ ~partial -> Set(h, Raise(c, exc, CopyMessage(exc)))
         [] outcome = "copy2" ->
                Set(h, Raise([c EXCEPT !.stored = IF partial THEN "partial" ELSE "none"],
                             exc, CopyMessage(exc)))
         [] OTHER -> FALSE

\* _copy_to_r2: mkdir, shutil.copy2, os.path.getsize, return the key
_copy_to_r2(h, outcome, exc, partial) ==
    /\ calls[h].pc = "copy"
    /\ LET e == "copy:" \o outcome \o ":" \o exc \o (IF partial THEN ":partial" ELSE "")
           c == Stage(Env(calls[h], e), "PersistArtifact")
       IN
       CASE outcome = "ok" /\ exc = "Exception" /\ ~partial ->
                Set(h, [Done(c, "PersistArtifact") EXCEPT
                            !.stored = "full", !.r2_key = R2Key(c.job_id), !.pc = "notify"])
         [] outcome = "mkdir" /\ ~partial -> Set(h, Raise(c, exc, CopyMessage(exc)))
         [] outcome = "copy2" ->
                Set(h, Raise([c EXCEPT !.stored = IF partial THEN "partial" ELSE "none"],
                             exc, CopyMessage(exc)))
         [] outcome = "getsize" /\ ~partial ->
                Set(h, Raise([c EXCEPT !.stored = "full"], exc, CopyMessage(exc)))
         [] OTHER -> FALSE

\* variant: the completed callback goes out before the artifact is copied
NotifyCompleted_BeforeCopy(h) ==
    /\ calls[h].pc = "copy"
    /\ \A i \in DOMAIN calls[h].log : calls[h].log[i].name # "completed"
    /\ Set(h, _send_callback(calls[h], "completed", R2Key(calls[h].job_id), NoKey, <<100>>))

\* `_send_callback(callback_url, job_id, "completed", r2_key=r2_key, progress=100)`
NotifyCompleted(h) ==
    /\ calls[h].pc = "notify"
    /\ Set(h, [_send_callback(Env(calls[h], "notify"), "completed", calls[h].r2_key,
                               NoKey, <<100>>)
                 EXCEPT !.pc = "return"])

\* variant: the function returns the local output path instead of the key
Return_LocalPath(h) ==
    /\ calls[h].pc = "return"
    /\ Set(h, [Finally(calls[h]) EXCEPT
                 !.pc = "exited",
                 !.result = ReturnValue("/tmp/output/" \o calls[h].job_id \o ".mp4")])

\* `return {"status": "completed", "r2_key": r2_key}`, then the finally block
Return(h) ==
    /\ calls[h].pc = "return"
    /\ Set(h, [Finally(Env(calls[h], "return")) EXCEPT
                 !.pc = "exited", !.result = ReturnValue(calls[h].r2_key)])

\* an exception that is no Exception (KeyboardInterrupt, SystemExit, the
\* cancellation of the input) reaches the worker while it is in the function:
\* `except Exception` does not catch it, in _start_next_server or in the body
Interrupt(h) ==
    /\ calls[h].pc # "exited"
    /\ Set(h, Raise(Env(calls[h], "interrupt"), "BaseException", "cancelled"))

(***************************************************************************)
(* status(call_id)                                                         *)
(***************************************************************************)
CallIdRequired ==
    [status |-> "400", error |-> "call_id query parameter required", result |-> NoKey]
Running == [status |-> "running", error |-> NoKey, result |-> NoKey]
Completed(result) == [status |-> "completed", error |-> NoKey, result |-> result.r2_key]
Failed(msg) == [status |-> "failed", error |-> msg, result |-> NoKey]
Unknown(msg) == [status |-> "unknown", error |-> msg, result |-> NoKey]

CallIds == {"", "unknown-id"} \cup {CallId(n) : n \in 1..MaxCalls}
Resolves(call_id) == \E n \in 1..Len(calls) : CallId(n) = call_id
Resolve(call_id) == CHOOSE n \in 1..Len(calls) : CallId(n) = call_id

\* what fc.get(timeout=0) does: "timeout" (raises TimeoutError, no result yet),
\* a return value, or the exception the call ended with
FcGet(c) ==
    IF c.pc # "exited" THEN [kind |-> "raised", r2_key |-> NoKey, exc |-> "TimeoutError", msg |-> ""]
    ELSE c.result

\* variant: the inner try has no `except TimeoutError` clause
StatusOf_NoTimeoutClause(got) ==
    IF got.kind = "returned" THEN Completed(got) ELSE Failed(got.msg)

\* the inner try of status: fc.get(timeout=0) and its except clauses
StatusOf(got) ==
    IF got.kind = "returned" THEN Completed(got)
    ELSE IF got.exc = "TimeoutError" THEN Running
    ELSE Failed(got.msg)

\* from_id: the platform reports a handle it cannot resolve either here
\* (at_lookup) or when the result is asked for
status_outcome(call_id, at_lookup) ==
    IF call_id = "" THEN CallIdRequired
    ELSE IF ~Resolves(call_id)
    THEN IF at_lookup THEN Unknown("not found")
         ELSE StatusOf(RaisedValue("Exception", "not found"))
    ELSE StatusOf(FcGet(calls[Resolve(call_id)]))

\* variant: a result that status has handed out is dropped from the call
status_Consuming(call_id, at_lookup) ==
    /\ Resolves(call_id) => at_lookup
    /\ http' = [ep |-> "status", call_id |-> call_id, resp |-> status_outcome(call_id, at_lookup)]
    /\ calls' = [n \in DOMAIN calls |->
                    IF CallId(n) = call_id /\ calls[n].pc = "exited"
                    THEN [calls[n] EXCEPT !.result = RaisedValue("Exception", "result expired")]
                    ELSE calls[n]]
    /\ UNCHANGED <<secret, now, whisper>>

status(call_id, at_lookup) ==
    /\ Resolves(call_id) => at_lookup
    /\ http' = [ep |-> "status", call_id |-> call_id, resp |-> status_outcome(call_id, at_lookup)]
    /\ UNCHANGED <<secret, now, calls, whisper>>

(***************************************************************************)
(* POST /transcribe of the two transcription services:                     *)
(* transcribe_audio (docker/whisper/server.py) and transcribe_file         *)
(* (whisper-service/main.py).  A request:                                  *)
(*   svc      "docker" or "service"                                        *)
(*   filename file.filename of the upload ("" when it has none)            *)
(*   pc       "create", "write", "transcribe", "done"                      *)
(*   created  the temporary file NamedTemporaryFile made for it            *)
(*   tmp_path the local tmp_path, once assigned                            *)
(*   resp     the status code of the response                              *)
(***************************************************************************)
Filenames == {"", "a.mp3", "a.txt"}
Ext(filename) == CASE filename = "a.mp3" -> ".mp3" [] filename = "a.txt" -> ".txt" [] OTHER -> ""
allowed_extensions == {".mp3", ".wav", ".m4a", ".flac", ".ogg", ".wma", ".aac"}

Upload(svc, filename, pc, resp) ==
    [svc |-> svc, filename |-> filename, pc |-> pc, created |-> NoKey,
     tmp_path |-> NoKey, resp |-> resp]
TmpName(k) == "/tmp/tmp" \o ToString(k)

SetUpload(k, u) ==
    /\ uploads' = [uploads EXCEPT ![k] = u]
    /\ UNCHANGED <<render, model>>

\* lifespan of docker/whisper/server.py: the model is loaded before the
\* service takes requests and dropped when it shuts down
lifespan ==
    /\ model' = IF model = "none" THEN "loaded" ELSE "none"
    /\ UNCHANGED <<render, uploads, tmpfiles>>

\* transcribe_audio up to the temporary file: 503 without the model, 400 for
\* an extension that is not allowed
transcribe_audio(filename) ==
    /\ Len(uploads) < MaxUploads
    /\ uploads' = Append(uploads,
          IF model = "none" THEN Upload("docker", filename, "done", 503)
          ELSE IF Ext(filename) \notin allowed_extensions
          THEN Upload("docker", filename, "done", 400)
          ELSE Upload("docker", filename, "create", 0))
    /\ UNCHANGED <<render, model, tmpfiles>>

\* transcribe_file up to the temporary file: 400 without a filename
transcribe_file(filename) ==
    /\ Len(uploads) < MaxUploads
    /\ uploads' = Append(uploads,
          IF filename = "" THEN Upload("service", filename, "done", 400)
          ELSE Upload("service", filename, "create", 0))
    /\ UNCHANGED <<render, model, tmpfiles>>

\* an exception inside `with tempfile.NamedTemporaryFile(...) as tmp:`.  In
\* transcribe_audio `except Exception` turns it into the 500 "Failed to
\* process uploaded file"; in transcribe_file it leaves the handler, which the
\* framework answers with a 500.  Neither removes anything.
SaveFailed(u) == [u EXCEPT !.pc = "done", !.resp = 500]

\* tempfile.NamedTemporaryFile(delete=False, suffix=...): the file exists
\* from here on
NamedTemporaryFile(k, ok) ==
    /\ uploads[k].pc = "create"
    /\ IF ok
       THEN /\ tmpfiles' = tmpfiles \cup {TmpName(k)}
            /\ SetUpload(k, [uploads[k] EXCEPT !.pc = "write", !.created = TmpName(k)])
       ELSE /\ tmpfiles' = tmpfiles
            /\ SetUpload(k, SaveFailed(uploads[k]))

\* `content = await file.read(); tmp.write(content); tmp_path = tmp.name`
WriteUpload(k, ok) ==
    /\ uploads[k].pc = "write"
    /\ tmpfiles' = tmpfiles
    /\ IF ok
       THEN SetUpload(k, [uploads[k] EXCEPT !.pc = "transcribe", !.tmp_path = uploads[k].created])
       ELSE SetUpload(k, SaveFailed(uploads[k]))

\* the second try block: the transcription returns the result or raises,
\* which `except Exception` turns into the 500 "Transcription failed"; the
\* finally block runs os.unlink(tmp_path) in both cases
Transcribe(k, ok) ==
    /\ uploads[k].pc = "transcribe"
    /\ tmpfiles' = tmpfiles \ {uploads[k].tmp_path}
    /\ SetUpload(k, [uploads[k] EXCEPT !.pc = "done", !.resp = IF ok THEN 200 ELSE 500])

Init ==
    /\ secret \in Secrets
    /\ now = 0
    /\ calls = <<>>
    /\ http = NoExchange
    /\ model = "none"
    /\ uploads = <<>>
    /\ tmpfiles = {}

Next ==
    \/ \E request \in Requests, t \in 0..MaxTime : submit(request, t)
    \/ \E call_id \in CallIds, at_lookup \in BOOLEAN : status(call_id, at_lookup)
    \/ \E h \in DOMAIN calls :
        \/ Begin(h)
        \/ \E ok \in BOOLEAN : _prepare_audio(h, ok)
        \/ \E ok \in BOOLEAN : Popen(h, ok)
        \/ \E ok \in BOOLEAN : Probe(h, ok)
        \/ \E outcome \in {"ok", "nonzero", "timeout"} : _run_render(h, outcome)
        \/ \E outcome \in {"ok", "mkdir", "copy2", "getsize"}, exc \in CopyErrors,
              partial \in BOOLEAN : _copy_to_r2(h, outcome, exc, partial)
        \/ NotifyCompleted(h)
        \/ Return(h)
        \/ Interrupt(h)

Spec == Init /\ [][Next]_vars

\* the transcription services on their own
NextWhisper ==
    \/ lifespan
    \/ \E filename \in Filenames : transcribe_audio(filename)
    \/ \E filename \in Filenames : transcribe_file(filename)
    \/ \E k \in DOMAIN uploads :
        \/ \E ok \in BOOLEAN : NamedTemporaryFile(k, ok)
        \/ \E ok \in BOOLEAN : WriteUpload(k, ok)
        \/ \E ok \in BOOLEAN : Transcribe(k, ok)

InitWhisper == Init /\ secret = ""
SpecWhisper == InitWhisper /\ [][NextWhisper]_vars

(***************************************************************************)
(* Properties.                                                             *)
(***************************************************************************)
Names(c, ev) == LET sel == SelectSeq(c.log, LAMBDA e : e.ev = ev)
                IN  [i \in DOMAIN sel |-> sel[i].name]
IsPrefix(s, t) == Len(s) <= Len(t) /\ s = SubSeq(t, 1, Len(s))
Callbacks(c, st) ==
    {i \in DOMAIN c.log : c.log[i].ev = "callback" /\ c.log[i].name = st}
HasCallback(c, st) == Callbacks(c, st) # {}
Terminal(c) == Callbacks(c, "completed") \cup Callbacks(c, "failed")
StageOrder == <<"AcquireAudio", "BootstrapService", "Invoke", "PersistArtifact">>

\* the call a status exchange is about
Polled == calls[Resolve(http.call_id)]
PolledCall == http.ep = "status" /\ http.call_id # "" /\ Resolves(http.call_id)

\* C1: no call has left the pipeline with its subprocess still running.
C1_NoSubprocessAfterExit ==
    \A h \in DOMAIN calls : calls[h].pc = "exited" => calls[h].proc # "running"

\* C2: a completed callback is attempted only after _copy_to_r2 has returned
\* the job's key: the render and the copy have both returned before it, the
\* artifact is at the key, and no stage of the call has failed.
C2_CompletedOnlyAfterKey ==
    \A h \in DOMAIN calls : \A i \in Callbacks(calls[h], "completed") :
        LET c == calls[h] IN
        /\ \E j \in 1..(i - 1) : c.log[j] = DoneEvent("Invoke")
        /\ \E j \in 1..(i - 1) : c.log[j] = DoneEvent("PersistArtifact")
        /\ c.log[i].r2_key = "renders/" \o c.job_id \o ".mp4"
        /\ c.r2_key = c.log[i].r2_key
        /\ c.stored = "full"
        /\ c.result.kind = "raised" => c.result.exc = "BaseException"

C2_Witness ==
    \E h \in DOMAIN calls :
        /\ HasCallback(calls[h], "completed")
        /\ \E i \in DOMAIN calls[h].sent : calls[h].sent[i].status = "completed"

\* C3: the stages of a call start in the fixed order, none skipped and none
\* twice; a stage starts only after the previous one has returned; a terminal
\* callback is the last event of a call and follows all four stages when it is
\* "completed"; once a call has exited nothing more of it runs.
StagesInOrder(c) ==
    /\ IsPrefix(Names(c, "stage"), StageOrder)
    /\ IsPrefix(Names(c, "done"), Names(c, "stage"))
    /\ Len(Names(c, "stage")) <= Len(Names(c, "done")) + 1
    /\ \A i \in DOMAIN c.log :
          c.log[i].ev = "stage" /\ c.log[i].name # "AcquireAudio" =>
            \E j \in 1..(i - 1) : c.log[j].ev = "done" /\
                \E k \in 1..3 : StageOrder[k] = c.log[j].name /\ StageOrder[k + 1] = c.log[i].name
    /\ \A i \in Terminal(c) : i = Len(c.log)
    /\ HasCallback(c, "completed") => Names(c, "done") = StageOrder

C3_StagesInOrder ==
    [][\A h \in DOMAIN calls' :
          /\ StagesInOrder(calls'[h])
          /\ h \in DOMAIN calls /\ calls[h].pc = "exited" => calls'[h] = calls[h]]_vars

C3_Witness ==
    \E h \in DOMAIN calls :
        /\ calls[h].pc = "exited"
        /\ Names(calls[h], "stage") = SubSeq(StageOrder, 1, 3)
        /\ HasCallback(calls[h], "failed")

\* C4: a call that has ended has attempted exactly one terminal callback,
\* "completed" when it returned and "failed" when it raised.
C4_OneTerminalCallback ==
    \A h \in DOMAIN calls :
        calls[h].pc = "exited" =>
            /\ Cardinality(Terminal(calls[h])) = 1
            /\ calls[h].result.kind = "returned" <=> HasCallback(calls[h], "completed")

\* C5: status, asked about a call that has failed, answers "failed" with a
\* non-empty error.
C5_FailedCallReportsFailed ==
    PolledCall /\ Polled.pc = "exited" /\ Polled.result.kind = "raised" =>
        http.resp.status = "failed" /\ TruthyStr(http.resp.error)

\* C6 as stated: status of a call that returned is "completed" with the key
\* renders/{job_id}.mp4 that its completed callback carried, and a completed
\* (failed) callback never meets a "failed" ("completed") status.
C6_StatusAgreesWithCallback ==
    PolledCall =>
        /\ Polled.result.kind = "returned" =>
              /\ http.resp.status = "completed"
              /\ http.resp.result = "renders/" \o Polled.job_id \o ".mp4"
              /\ \A i \in Callbacks(Polled, "completed") :
                    Polled.log[i].r2_key = http.resp.result
        /\ ~(HasCallback(Polled, "completed") /\ http.resp.status = "failed")
        /\ ~(HasCallback(Polled, "failed") /\ http.resp.status = "completed")

\* C6, amended: as above, except that a completed callback meets a "failed"
\* status when the call was ended, after that callback, by an exception that
\* is no Exception; it never does after a stage failure.
C6_StatusAgreesUnlessInterrupted ==
    PolledCall =>
        /\ Polled.result.kind = "returned" =>
              /\ http.resp.status = "completed"
              /\ http.resp.result = "renders/" \o Polled.job_id \o ".mp4"
              /\ \A i \in Callbacks(Polled, "completed") :
                    Polled.log[i].r2_key = http.resp.result
        /\ HasCallback(Polled, "completed") /\ http.resp.status = "failed" =>
              Polled.result.exc = "BaseException"
        /\ ~(HasCallback(Polled, "failed") /\ http.resp.status = "completed")

C6_Witness ==
    /\ PolledCall
    /\ Polled.result.kind = "returned"
    /\ HasCallback(Polled, "completed")
    /\ http.resp.status = "completed"

\* the fields of a submit exchange
Req == http.request
Token == IF Req.auth_token = NoKey THEN "" ELSE Req.auth_token
Authenticated == secret # "" /\ Token = secret
NoConfig == Req.config.t = "missing" \/ Req.config = [t |-> "dict", output |-> Missing, other |-> FALSE]
NoAudioSource == Req.audio_url \in {NoKey, ""} /\ Req.audio_base64 \in {NoKey, ""}
NothingSpawned == Len(calls) = http.before

\* C7: a request whose token is not the configured secret, or any request
\* when no secret is configured, is answered Unauthorized/401 with no handle,
\* and spawns no call.
C7_UnauthorizedRejected ==
    http.ep = "submit" /\ (secret = "" \/ Token # secret) =>
        /\ http.resp = [kind |-> "error", error |-> "Unauthorized", status |-> 401]
        /\ NothingSpawned

C7_Witness ==
    /\ http.ep = "submit"
    /\ secret = ""
    /\ Req.auth_token \in {NoKey, ""}
    /\ http.resp.kind = "error"
    /\ http.resp.status = 401

\* C8 as stated: every request without a config, or without both audio
\* sources, is answered with a 400 and spawns no call.
C8_InvalidAnswered400 ==
    http.ep = "submit" /\ (NoConfig \/ NoAudioSource) =>
        /\ http.resp.kind = "error"
        /\ http.resp.status = 400
        /\ NothingSpawned

\* C8, amended: such a request is answered with a 400 when its token passes
\* authentication and with the 401 when it does not; in both cases it spawns
\* no call.
C8_InvalidAnswered400WhenAuthenticated ==
    http.ep = "submit" /\ (NoConfig \/ NoAudioSource) =>
        /\ http.resp.kind = "error"
        /\ http.resp.status = IF Authenticated THEN 400 ELSE 401
        /\ NothingSpawned

C8_Witness ==
    /\ http.ep = "submit"
    /\ Authenticated
    /\ ~NoConfig
    /\ NoAudioSource
    /\ http.resp.kind = "error"
    /\ http.resp.status = 400

\* C9: an accepted request is dispatched to the lane of its tier, and the
\* response reports that tier: the override when the request has one,
\* otherwise Accelerated exactly when the format contains "4k" or "360".
FormatOf(cfg) ==
    IF cfg.output.t = "missing" THEN DefaultFormat
    ELSE IF cfg.output.format.t = "missing" THEN DefaultFormat
    ELSE cfg.output.format.s
TierOf(req) ==
    IF req.gpu.t = "bool" THEN req.gpu.b
    ELSE \/ Contains(<<"4","k">>, FormatOf(req.config))
         \/ Contains(<<"3","6","0">>, FormatOf(req.config))

C9_TierSelection ==
    http.ep = "submit" /\ http.resp.kind = "accepted" =>
        /\ Len(calls) = http.before + 1
        /\ http.resp.gpu = [t |-> "bool", b |-> TierOf(Req)]
        /\ calls[Len(calls)].fn = IF TierOf(Req) THEN "render_gpu" ELSE "render_cpu"

C9_Witness ==
    /\ http.ep = "submit"
    /\ http.resp.kind = "accepted"
    /\ Req.gpu = PyBool(FALSE)
    /\ Contains(<<"3","6","0">>, FormatOf(Req.config))
    /\ calls[Len(calls)].fn = "render_cpu"

\* C10: submit never raises in tier selection.
C10_TierSelectionNeverRaises ==
    http.ep = "submit" => http.resp.kind # "raised"

\* C11: the response of an accepted submit exists while the call it spawned
\* has not started: the call sits before its first statement, has attempted no
\* callback, run no stage and recorded no result, and the response carries its
\* handle.  What the other calls are doing has no part in it.
C11_SubmitReturnsAtSpawn ==
    http.ep = "submit" /\ http.resp.kind = "accepted" =>
        /\ Len(calls) = http.before + 1
        /\ http.resp.call_id = CallId(Len(calls))
        /\ calls[Len(calls)].pc = "start"
        /\ calls[Len(calls)].log = <<>>
        /\ calls[Len(calls)].env = <<>>
        /\ calls[Len(calls)].result.kind = "none"
        /\ calls[Len(calls)].proc = "none"

\* an accepted submit answers while an earlier call is in the render
C11_Witness ==
    /\ http.ep = "submit"
    /\ http.resp.kind = "accepted"
    /\ Len(calls) = 2
    /\ calls[1].pc = "render"
    /\ calls[2].pc = "start"

\* C12: status answers every handle, in every state of the call it names, with
\* one of five answers: the 400 exactly for the empty handle, "running" with
\* nothing else, "completed" with the result, "failed" with the error,
\* "unknown" with an error.  It answers for a call that has not finished
\* without the call moving ("running"), and it changes nothing but the
\* exchange itself.
StatusAnswer(call_id, resp) ==
    /\ resp.status \in {"400", "running", "completed", "failed", "unknown"}
    /\ resp.status = "400" <=> call_id = ""
    /\ resp.status = "running" => resp.error = NoKey /\ resp.result = NoKey
    /\ resp.status = "completed" => resp.error = NoKey /\ resp.result # NoKey
    /\ resp.status \in {"failed", "unknown"} => resp.error # NoKey /\ resp.result = NoKey

C12_StatusTotalReadOnly ==
    [][http'.ep = "status" =>
          /\ StatusAnswer(http'.call_id, http'.resp)
          /\ <<secret, now, calls>>' = <<secret, now, calls>>
          /\ \A n \in DOMAIN calls :
                http'.call_id = CallId(n) /\ calls[n].pc # "exited" =>
                    http'.resp.status = "running"]_vars

\* status has answered "running" for a call that is in the render, while the
\* other call has already exited
C12_Witness ==
    /\ PolledCall
    /\ Polled.pc = "render"
    /\ http.resp.status = "running"
    /\ \E h \in DOMAIN calls : calls[h].pc = "exited"

\* C13: status of a handle that names no call answers "unknown" with an error,
\* whether the platform reports the handle at from_id or at fc.get.
C13_UnresolvableIsUnknown ==
    http.ep = "status" /\ http.call_id # "" /\ ~Resolves(http.call_id) =>
        /\ http.resp.status = "unknown"
        /\ http.resp.error # NoKey

\* C14: from the moment status answers "completed" or "failed" for the handle
\* of a call, it gives that same answer, result or error included, after every
\* further step of the system.
TerminalAnswer(n) == status_outcome(CallId(n), TRUE)
C14_TerminalAnswerStable ==
    [][\A n \in DOMAIN calls :
          TerminalAnswer(n).status \in {"completed", "failed"} =>
              TerminalAnswer(n)' = TerminalAnswer(n)]_vars

\* status has answered "failed" for the first call, and the second call has
\* moved on since that call ended
C14_Witness ==
    /\ PolledCall
    /\ http.call_id = CallId(1)
    /\ http.resp.status = "failed"
    /\ http.resp = TerminalAnswer(1)
    /\ Len(calls) = 2
    /\ calls[2].pc \notin {"start", "exited"}

\* C15 as stated: no two calls carry the same job identifier.
C15_OneExecutionPerJobId ==
    \A i, j \in DOMAIN calls : calls[i].job_id = calls[j].job_id => i = j

\* C15, amended: no two calls have the same handle, and the handle an accepted
\* submit answers with is the handle of no earlier call; calls are not told
\* apart by job identifier (two calls may carry the same one).
C15_OneExecutionPerHandle ==
    /\ \A i, j \in DOMAIN calls : CallId(i) = CallId(j) => i = j
    /\ http.ep = "submit" /\ http.resp.kind = "accepted" =>
          \A n \in 1..http.before : CallId(n) # http.resp.call_id

\* the second of two accepted submissions with the same job identifier
C15_Witness ==
    /\ http.ep = "submit"
    /\ http.resp.kind = "accepted"
    /\ Len(calls) = 2
    /\ calls[1].job_id = calls[2].job_id
    /\ http.resp.call_id # CallId(1)

\* C16: two distinct calls copy their artifacts to distinct keys of the
\* bucket, calls whose job identifier submit generated included.  (Stated for
\* the pairs in which at least one identifier was generated by submit: callers
\* are required to supply identifiers that are unique.)
Generated(c) == \E t \in 0..MaxTime : c.job_id = GenJobId(t)
C16_DistinctKeys ==
    \A i, j \in DOMAIN calls :
        i # j /\ (Generated(calls[i]) \/ Generated(calls[j])) =>
            R2Key(calls[i].job_id) # R2Key(calls[j].job_id)

\* C17: what a call does is the same whatever becomes of its callbacks.  Two
\* calls with the same job, the same audio source and the same outcome of
\* every step are in the same state (position, stages run, subprocess,
\* artifact, result, callbacks attempted) whether they have no callback URL,
\* an endpoint that answers 2xx, or one that rejects a callback and is
\* unreachable for another.  Without a URL no request is made; with one, each
\* attempted callback makes exactly one request, and no callback is attempted
\* twice.
Pipeline(c) ==
    [c EXCEPT !.callback_url = NoKey, !.sent = <<>>, !.acks = <<>>,
              !.fn = "render", !.attempt = 0]
SameInputs(c, d) ==
    /\ c.job_id = d.job_id
    /\ c.audio_url = d.audio_url
    /\ c.audio_base64 = d.audio_base64
    /\ c.env = d.env
Attempts(c) == {i \in DOMAIN c.log : c.log[i].ev = "callback"}
C17_CallbacksDoNotInfluence ==
    /\ \A i, j \in DOMAIN calls :
          SameInputs(calls[i], calls[j]) => Pipeline(calls[i]) = Pipeline(calls[j])
    /\ \A h \in DOMAIN calls :
          LET c == calls[h] IN
          /\ Len(c.acks) = Len(c.sent)
          /\ Len(c.sent) = IF c.callback_url \in {NoKey, ""} THEN 0
                           ELSE Cardinality(Attempts(c))
          /\ \A i, j \in Attempts(c) :
                c.log[i].name = c.log[j].name /\ c.log[i].progress = c.log[j].progress
                    => i = j

\* one call whose endpoint rejected a callback and was unreachable for the
\* last one, and one call without a callback URL, have both returned
C17_Witness ==
    /\ Len(calls) = 2
    /\ calls[1].callback_url = CbFlaky
    /\ calls[2].callback_url = NoKey
    /\ SameInputs(calls[1], calls[2])
    /\ calls[1].result.kind = "returned"
    /\ calls[1].acks = <<"2xx", "500", "error">>
    /\ calls[2].sent = <<>>

\* what the environment did to the call includes e
Met(c, e) == \E i \in DOMAIN c.env : c.env[i] = e
Started(c, stage) == \E i \in DOMAIN c.log : c.log[i] = StageEvent(stage)

\* C18: a call whose render command exited non-zero or ran into its timeout
\* has raised: its subprocess is killed, PersistArtifact was never started,
\* nothing of it is in the bucket, it attempted no completed callback and one
\* failed callback with a non-empty error, and the body it sent, if it has a
\* callback URL, has status "failed", currentStage "Failed" and a non-empty
\* errorMessage.
RenderFailed(c) == Met(c, "render:nonzero") \/ Met(c, "render:timeout")
C18_RenderFailureFailsJob ==
    \A h \in DOMAIN calls :
        LET c == calls[h] IN
        RenderFailed(c) =>
            /\ c.pc = "exited"
            /\ c.result.kind = "raised"
            /\ c.proc = "killed"
            /\ ~Started(c, "PersistArtifact")
            /\ c.stored = "none" /\ c.r2_key = NoKey
            /\ ~HasCallback(c, "completed")
            /\ Cardinality(Callbacks(c, "failed")) = 1
            /\ \A i \in Callbacks(c, "failed") : c.log[i].error \notin {NoKey, ""}
            /\ c.callback_url \notin {NoKey, ""} =>
                  /\ c.sent # <<>>
                  /\ c.sent[Len(c.sent)].status = "failed"
                  /\ c.sent[Len(c.sent)].currentStage = "Failed"
                  /\ c.sent[Len(c.sent)].errorMessage \notin {NoKey, ""}
                  /\ \A i \in DOMAIN c.sent : c.sent[i].status # "completed"

\* the render command of a call with a callback URL exited non-zero
C18_Witness ==
    \E h \in DOMAIN calls :
        /\ Met(calls[h], "render:nonzero")
        /\ Met(calls[h], "ready")
        /\ calls[h].sent # <<>>
        /\ calls[h].sent[Len(calls[h].sent)].currentStage = "Failed"

\* C19: a call whose render returned and whose copy to the bucket failed, at
\* mkdir, at copy2 or at getsize, has raised the error of that step: it
\* attempted one failed callback and no completed one, and status does not
\* answer "completed" for its handle, now or in any exchange about it.
CopyFailures ==
    {"copy:" \o o \o ":" \o x \o p :
        o \in {"mkdir", "copy2", "getsize"}, x \in CopyErrors, p \in {"", ":partial"}}
CopyFailed(c) == \E e \in CopyFailures : Met(c, e)
C19_CopyFailureFailsJob ==
    \A h \in DOMAIN calls :
        LET c == calls[h] IN
        CopyFailed(c) =>
            /\ Met(c, "render:ok")
            /\ c.pc = "exited"
            /\ c.result.kind = "raised" /\ c.result.exc \in CopyErrors
            /\ c.r2_key = NoKey
            /\ Cardinality(Callbacks(c, "failed")) = 1
            /\ ~HasCallback(c, "completed")
            /\ \A i \in DOMAIN c.sent : c.sent[i].status # "completed"
            /\ status_outcome(CallId(h), TRUE).status \in {"failed", "running"}
            /\ PolledCall /\ http.call_id = CallId(h) => http.resp.status # "completed"

\* status is asked about a call whose artifact was copied in full and whose
\* getsize failed
C19_Witness ==
    /\ PolledCall
    /\ CopyFailed(Polled)
    /\ Polled.stored = "full"
    /\ HasCallback(Polled, "failed")
    /\ http.resp.status = "failed"

\* C20: _start_next_server makes at most MaxProbes probes (60 in the source).
\* While it polls, the subprocess runs and attempt, the number of probes that
\* have failed, is below the bound.  A probe either succeeds, and the function
\* returns the running subprocess at once; or fails before the last pass, and
\* the next pass follows; or fails in the last pass, and the subprocess is
\* killed and the startup error raised.  After that error the call has
\* exited without starting Invoke and without the progress-10 callback.
Polling(c) == c.pc = "probe"
ProbeStep(c, d) ==
    \/ /\ Polling(d)
       /\ d.attempt = c.attempt + 1
       /\ d.proc = "running"
    \/ /\ Met(d, "ready")
       /\ d.pc = "render"
       /\ d.proc = "running" /\ d.server_proc
    \/ /\ Met(d, "never ready")
       /\ c.attempt = MaxProbes - 1
       /\ d.proc = "killed"
       /\ d.result = RaisedValue("Exception", "Next.js failed to start within 60s")
    \/ Met(d, "interrupt")
NeverReady(c) ==
    Met(c, "never ready") =>
        /\ c.pc = "exited"
        /\ c.proc = "killed"
        /\ ~Started(c, "Invoke")
        /\ \A i \in Callbacks(c, "rendering") : c.log[i].progress # <<10>>
C20_BootstrapBounded ==
    [][\A h \in DOMAIN calls' :
          /\ Polling(calls'[h]) =>
                calls'[h].attempt < MaxProbes /\ calls'[h].proc = "running"
          /\ NeverReady(calls'[h])
          /\ h \in DOMAIN calls /\ Polling(calls[h]) /\ calls'[h] # calls[h] =>
                ProbeStep(calls[h], calls'[h])]_vars

\* the last probe of a call has failed
C20_Witness ==
    \E h \in DOMAIN calls :
        /\ Met(calls[h], "never ready")
        /\ calls[h].proc = "killed"
        /\ HasCallback(calls[h], "failed")

\* C21: the callbacks a call attempts are, in order, "rendering" with progress
\* 5, "rendering" with progress 10, and one terminal callback, each at most
\* once and none out of turn (the second and the third may be missing, and a
\* "failed" may follow the first directly).  Progress 5 is attempted before
\* AcquireAudio starts, progress 10 only after BootstrapService has returned;
\* the progress values never decrease; a terminal callback is the last
\* callback of the call, at every later step too.
CallbackLog(c) == SelectSeq(c.log, LAMBDA e : e.ev = "callback")
IsTerminal(e) == e.name \in {"completed", "failed"}
Monotonic(c) ==
    LET cbs == CallbackLog(c) IN
    /\ Len(cbs) <= 3
    /\ \A i \in DOMAIN cbs :
          /\ cbs[i].name \in {"rendering", "completed", "failed"}
          /\ IsTerminal(cbs[i]) => i = Len(cbs) /\ i > 1
          /\ cbs[i].name = "rendering" => cbs[i].progress = IF i = 1 THEN <<5>> ELSE <<10>>
          /\ cbs[i].name = "completed" => cbs[i].progress = <<100>>
          /\ cbs[i].name = "failed" => cbs[i].progress = <<>>
    /\ \A i, j \in DOMAIN cbs :
          i < j /\ cbs[i].progress # <<>> /\ cbs[j].progress # <<>> =>
              cbs[i].progress[1] <= cbs[j].progress[1]
    /\ \A i \in DOMAIN c.log :
          /\ c.log[i] = StageEvent("AcquireAudio") =>
                \E j \in 1..(i - 1) : c.log[j].ev = "callback" /\ c.log[j].progress = <<5>>
          /\ c.log[i].ev = "callback" /\ c.log[i].progress = <<10>> =>
                \E j \in 1..(i - 1) : c.log[j] = DoneEvent("BootstrapService")
C21_CallbacksMonotonic ==
    [][\A h \in DOMAIN calls' :
          /\ Monotonic(calls'[h])
          /\ h \in DOMAIN calls =>
                /\ IsPrefix(CallbackLog(calls[h]), CallbackLog(calls'[h]))
                /\ Terminal(calls[h]) # {} =>
                      CallbackLog(calls'[h]) = CallbackLog(calls[h])]_vars

\* a call that attempted its completed callback was interrupted afterwards
C21_Witness ==
    \E h \in DOMAIN calls :
        /\ Len(CallbackLog(calls[h])) = 3
        /\ HasCallback(calls[h], "completed")
        /\ Met(calls[h], "interrupt")
        /\ calls[h].pc = "exited"

\* C22: the errorMessage of a failed callback is never longer than the one
\* bounded error text of the source, the render diagnostic ("Render failed
\* (exit N): " and the last StderrTail characters of stderr), whatever stage
\* failed and however long the text of its error.
ErrorLimit == Len("Render failed (exit 1): ") + StderrTail
C22_ErrorMessageTruncated ==
    \A h \in DOMAIN calls : \A i \in DOMAIN calls[h].sent :
        calls[h].sent[i].status = "failed" =>
            Len(calls[h].sent[i].errorMessage) <= ErrorLimit

\* C23: a submit that is accepted adds exactly one call and leaves the calls
\* before it as they were; its response carries the handle of the new call,
\* the lane the call runs in and the call's job identifier, which is the one
\* of the request when it has one.  This holds just the same when an earlier
\* call carries that job identifier: the new call is another call, with
\* another handle.  A submit that is not accepted adds no call.
C23_OneExecutionPerAcceptedSubmit ==
    [][http'.ep = "submit" =>
          IF http'.resp.kind = "accepted"
          THEN LET new == calls'[Len(calls')] IN
               /\ Len(calls') = Len(calls) + 1
               /\ SubSeq(calls', 1, Len(calls)) = calls
               /\ new.pc = "start"
               /\ http'.resp.call_id = CallId(Len(calls'))
               /\ http'.resp.gpu = PyBool(new.fn = "render_gpu")
               /\ http'.resp.job_id = new.job_id
               /\ http'.request.job_id # NoKey => new.job_id = http'.request.job_id
               /\ \A n \in DOMAIN calls' :
                     CallId(n) = http'.resp.call_id => n = Len(calls')
          ELSE calls' = calls]_vars

\* a request with the job identifier of a call that has already returned is
\* accepted, on the other lane
C23_Witness ==
    /\ http.ep = "submit"
    /\ http.resp.kind = "accepted"
    /\ Len(calls) = 2
    /\ calls[1].job_id = "a" /\ calls[2].job_id = "a"
    /\ calls[1].result.kind = "returned"
    /\ calls[1].fn # calls[2].fn
    /\ http.resp.call_id = CallId(2)

\* C24: submit decides on the token first.  A 400 is only ever the answer to
\* a request whose token is the configured secret; a request whose token is
\* not, whether or not it lacks a config or an audio source, gets the 401, and
\* its answer is the same as that of any other such request.
C24_AuthBeforeValidation ==
    http.ep = "submit" =>
        /\ http.resp.kind = "error" /\ http.resp.status = 400 => Authenticated
        /\ ~Authenticated =>
              /\ http.resp.kind = "error"
              /\ http.resp.status = 401
              /\ http.resp.error = "Unauthorized"

\* a request with a wrong token, no config and no audio source got the 401
C24_Witness ==
    /\ http.ep = "submit"
    /\ secret = "T"
    /\ Token = "W"
    /\ NoConfig
    /\ NoAudioSource
    /\ http.resp.status = 401

\* C25: a request with both audio_url and audio_base64 passes the validation
\* of submit like one with a single source.  A call that has started
\* AcquireAudio has read one source: the URL when it has one, with or without
\* an inline payload, and the inline payload only when it has no URL.  When
\* the acquisition fails the call has raised its error, with the failed
\* callback, without starting the stage again and without turning to the
\* other source.
BothSources(r) == r.audio_url \notin {NoKey, ""} /\ r.audio_base64 \notin {NoKey, ""}
C25_OneAudioSource ==
    /\ http.ep = "submit" /\ Authenticated /\ ~NoConfig /\ BothSources(Req) =>
          /\ http.resp.kind # "error"
          /\ http.resp.kind = "accepted" =>
                /\ calls[Len(calls)].audio_url = Req.audio_url
                /\ calls[Len(calls)].audio_base64 = Req.audio_base64
    /\ \A h \in DOMAIN calls :
          LET c == calls[h] IN
          /\ ~Started(c, "AcquireAudio") => c.audio = "none"
          /\ Started(c, "AcquireAudio") =>
                c.audio = IF c.audio_url \notin {NoKey, ""} THEN "url"
                          ELSE IF c.audio_base64 \notin {NoKey, ""} THEN "base64"
                          ELSE "none"
          /\ Met(c, "audio:fail") =>
                /\ c.pc = "exited"
                /\ c.result.kind = "raised"
                /\ HasCallback(c, "failed")
                /\ Names(c, "stage") = <<"AcquireAudio">>
                /\ Names(c, "done") = <<>>

\* the fetch of a call that has both a URL and an inline payload has failed
C25_Witness ==
    \E h \in DOMAIN calls :
        /\ BothSources(calls[h])
        /\ Met(calls[h], "audio:fail")
        /\ calls[h].audio = "url"
        /\ calls[h].pc = "exited"

\* C26: when the response to a /transcribe request is produced, the temporary
\* file made for its upload is gone, whether the transcription returned,
\* failed, or the upload could not be saved; a request that is answered before
\* the save (503 without the model, 400 for the file name) has made none.
C26_TempFilesRemoved ==
    \A k \in DOMAIN uploads :
        uploads[k].pc = "done" =>
            /\ uploads[k].created \notin tmpfiles
            /\ uploads[k].resp \in {400, 503} => uploads[k].created = NoKey

====
